---- MODULE Spec2Model ----
(***************************************************************************)
(* A model of CacheF3r (src/cachef3r.py): the 302 cache-poisoning          *)
(* verifier (verify_302_poisoning), the per-URL task                       *)
(* (test_cache_poisoning), the thread-pool orchestration of scan_target    *)
(* and the bounded crawl of discover_urls.                                 *)
(*                                                                         *)
(* Strings are sequences of symbols: single characters, and for the parts  *)
(* of a URL the symbols "https:", "http:", "/", "?" and names. lower(),    *)
(* substring tests, concatenation, urlparse and urljoin are computed on    *)
(* these sequences, not assumed.                                           *)
(***************************************************************************)
EXTENDS Integers, Sequences, FiniteSets, TLC

VARIABLES
    threads,     \* scan_target: max_workers of the pool
    urls,        \* scan_target: the URL list returned by discover_urls
    net,         \* the responses the transport may give to a request
    faults,      \* whether local file I/O may raise in this run
    opc,         \* scan_target: "idle" | "submit" | "collect" | "done"
    submitted,   \* scan_target: number of executor.submit calls made
    task,        \* one record per URL task (test_cache_poisoning's frame)
    log,         \* results.txt: the finding log, one record per line
    errlog,      \* ERROR lines logged by test_cache_poisoning / scan_target
    cpc,         \* discover_urls: "idle" | "crawl" | "filter" | "done"
    discovered,  \* discover_urls: discovered_urls
    stack,       \* discover_urls: the frames of crawl_url, innermost last
    fetched,     \* every GET issued by crawl_url, in order:
                 \* <<url, depth, outcome>>
    filtered,    \* discover_urls: filtered_urls (the returned list)
    fn,          \* a function called on its own: its name, or "none"
    args,        \* the arguments of that call
    ret,         \* what the calls made so far returned or raised, in order
    mpc,         \* main: "idle" | "loop" | "valid" | "testing" | "report" |
                 \* "done" | "interrupted"
    domains,     \* main: the targets, in the order of the hosts file
    ti,          \* main: the number of scan_target calls made
    files,       \* the results.txt of each target directory that has one
    all_results, \* all_results.txt, absent until generate_report writes it
    trace        \* per scan_target call: the target, the answer to the
                 \* HEAD request and the steps the call went through

scanVars == <<threads, urls, net, faults, opc, submitted, task, log, errlog>>
crawlVars == <<cpc, discovered, stack, fetched, filtered>>
callVars == <<fn, args, ret>>
mainVars == <<mpc, domains, ti, files, all_results, trace>>
vars == <<threads, urls, net, faults, opc, submitted, task, log, errlog,
          cpc, discovered, stack, fetched, filtered, fn, args, ret,
          mpc, domains, ti, files, all_results, trace>>

(***************************************************************************)
(* Strings                                                                 *)
(***************************************************************************)

\* Python's None where a string may stand.
None == <<"<None>">>

\* The truth value Python gives a string or None in `if x` / `not x`.
Truthy(x) == x # None /\ x # <<>>

\* str.lower() on one character of the model's alphabet.
LowerChar(c) ==
    CASE c = "E" -> "e"
      [] c = "V" -> "v"
      [] c = "A" -> "a"
      [] c = "B" -> "b"
      [] c = "X" -> "x"
      [] c = "H" -> "h"
      [] OTHER -> c

\* str.lower()
Lower(s) == [i \in 1..Len(s) |-> LowerChar(s[i])]

\* needle in hay (Python's substring test; the empty needle is in every hay)
Contains(hay, needle) ==
    \E i \in 0..(Len(hay) - Len(needle)) :
        SubSeq(hay, i + 1, i + Len(needle)) = needle

(***************************************************************************)
(* Inputs of a scan                                                        *)
(***************************************************************************)

\* Largest thread count tried (args.threads).
MaxThreads == 2
\* Number of URLs handed to the orchestrator.
NumUrls == 2

\* The target as validate_domain returns it: "https://t".
Target == <<"https:", "/", "/", "t">>

\* The i-th URL of the list: https://t/a, https://t/b, ... (all distinct, as
\* list(filtered_urls) is the list of a set).
UrlNames == <<"a", "b", "c", "d">>
UrlAt(i) == Target \o <<"/", UrlNames[i]>>

\* payloads["headers"] flattened in iteration order: one (header, value) pair
\* per entry, every value non-empty as generate_payloads writes them.
XFH == <<"X", "H">>
XOU == <<"X", "U">>
Catalog ==
    << [name |-> XFH, value |-> <<"e", "v">>],
       [name |-> XOU, value |-> <<"/", "a">>] >>
Pairs == 1..Len(Catalog)

\* Location values a server may answer with.
LocA == <<"/", "/", "E", "v", "/", "a">>   \* has "ev" (ignoring case) and "/a"
LocB == <<"/", "/", "e", "v", "/", "b">>   \* has "ev", not "/a"
LocN == <<"/", "b">>                       \* has neither

\* A response as requests returns it; headers.get('Location', '') is
\* `location`, the empty string when the header is absent.
Resp(st, loc) == [kind |-> "resp", status |-> st, location |-> loc]
\* requests.RequestException raised by the transport.
TransportError == [kind |-> "error", status |-> 0, location |-> <<>>]
NoResp == [kind |-> "none", status |-> 0, location |-> <<>>]

\* What the transport may answer: `base` to a request without the injected
\* header, `probe` to a request that carries it.
\* A scan of several URLs:
NetScan ==
    [base |-> {Resp(200, <<>>), Resp(302, LocA)},
     probe |-> {Resp(302, LocA), Resp(302, LocB)}]
\* One URL verified alone: errors, other statuses, absent Locations.
NetFull ==
    LET all == {TransportError, Resp(200, <<>>), Resp(200, LocA),
                Resp(302, <<>>), Resp(302, LocA), Resp(302, LocB),
                Resp(302, LocN)}
    IN  [base |-> all, probe |-> all]

(***************************************************************************)
(* validate_response_reflection and verify_302_poisoning                   *)
(***************************************************************************)

\* validate_response_reflection with the substring test made case-sensitive.
validate_response_reflection_CaseSensitive(response_text, payload_value, location_header) ==
    IF ~Truthy(payload_value)
    THEN [kind |-> "tuple", is_reflected |-> FALSE,
          location_reflection |-> FALSE, context |-> None]
    ELSE LET hit == /\ Truthy(location_header)
                    /\ Contains(location_header, payload_value)
         IN  [kind |-> "dict", is_reflected |-> FALSE,
              location_reflection |-> hit,
              context |-> IF hit
                          THEN <<"Location: ">> \o location_header
                          ELSE None]

\* validate_response_reflection: the tuple (False, None) when the payload
\* is empty, else the reflection_details dict.
validate_response_reflection(response_text, payload_value, location_header) ==
    IF ~Truthy(payload_value)
    THEN [kind |-> "tuple", is_reflected |-> FALSE,
          location_reflection |-> FALSE, context |-> None]
    ELSE LET hit == /\ Truthy(location_header)
                    /\ Contains(Lower(location_header), Lower(payload_value))
         IN  [kind |-> "dict", is_reflected |-> FALSE,
              location_reflection |-> hit,
              context |-> IF hit
                          THEN <<"Location: ">> \o location_header
                          ELSE None]

\* Number of cache busters minted per attempt (range(3)): one for the
\* baseline, the others for the probes.
NumCacheBusters == 3

\* Least number of recorded probes for a verdict (len(results) >= 2).
MinResults == 2

\* BaselineReflects with the comparison made case-sensitive.
BaselineReflects_CaseSensitive(b, header_value) ==
    /\ b.status = 302
    /\ Contains(b.location, header_value)

\* Line 568-570: the baseline is itself a 302 that already has the payload.
BaselineReflects(b, header_value) ==
    /\ b.status = 302
    /\ Contains(Lower(b.location), Lower(header_value))

\* ProbeResults recording every 302, reflected value or not.
ProbeResults_Any302(results, url, i, r, header_value) ==
    IF r.status = 302
    THEN Append(results,
                [url |-> url, buster |-> i, status_code |-> r.status,
                 location |-> r.location,
                 reflection |-> validate_response_reflection(
                                    <<>>, header_value, r.location),
                 headers |-> r.location])
    ELSE results

\* ProbeResults with the reflection test made case-sensitive.
ProbeResults_CaseSensitive(results, url, i, r, header_value) ==
    IF r.status = 302 /\ r.location # <<>>
       /\ Contains(r.location, header_value)
    THEN Append(results,
                [url |-> url, buster |-> i, status_code |-> r.status,
                 location |-> r.location,
                 reflection |-> validate_response_reflection(
                                    <<>>, header_value, r.location),
                 headers |-> r.location])
    ELSE results

\* Lines 587-603: what one probe response appends to results.
ProbeResults(results, url, i, r, header_value) ==
    IF r.status = 302
    THEN LET reflection == validate_response_reflection(<<>>, header_value,
                                                        r.location)
         IN  IF reflection.location_reflection
             THEN Append(results,
                         [url |-> url, buster |-> i,
                          status_code |-> r.status,
                          location |-> r.location,
                          reflection |-> reflection,
                          headers |-> r.location])
             ELSE results
    ELSE results

\* Validate accepting a single recorded probe.
Validate_OneSuffices(results) ==
    IF /\ Len(results) >= 1
       /\ Cardinality({results[j].location : j \in 1..Len(results)}) = 1
    THEN <<results[1]>>
    ELSE <<>>

\* Lines 610-617: the decision rule; <<finding>> or <<>> (None).
Validate(results) ==
    IF /\ Len(results) >= MinResults
       /\ Cardinality({results[j].location : j \in 1..Len(results)}) = 1
    THEN <<results[1]>>
    ELSE <<>>

\* Lines 551-554: the cache busters of one attempt, named by their position
\* in the list; Mint gives the text of each.
cache_busters == <<"verify_0", "verify_1", "verify_2">>

\* The User-Agent header every request carries.
USER_AGENT == <<"User-Agent", "Mozilla">>

\* BaselineRequest carrying the injected header.
BaselineRequest_Injected(url, header_name, header_value) ==
    [url |-> url \o <<"?", "cb=", cache_busters[1]>>,
     headers |-> {USER_AGENT, <<header_name, header_value>>},
     allow_redirects |-> FALSE]

\* Lines 558-563: the baseline GET; header_name and header_value are in
\* scope and not used.
BaselineRequest(url, header_name, header_value) ==
    [url |-> url \o <<"?", "cb=", cache_busters[1]>>,
     headers |-> {USER_AGENT},
     allow_redirects |-> FALSE]

\* Lines 574-585: the probe GET for one of cache_busters[1:].
ProbeRequest(url, cache_buster, header_name, header_value) ==
    [url |-> url \o <<"?", cache_buster>>,
     headers |-> {USER_AGENT, <<header_name, header_value>>},
     allow_redirects |-> FALSE]

(***************************************************************************)
(* The URL task: test_cache_poisoning calling verify_302_poisoning         *)
(***************************************************************************)

Tasks == 1..Len(urls)

\* A task that has not started: no attempt made, nothing in flight.
NewTask ==
    [pc |-> "unsubmitted",   \* where the task stands
     mode |-> "standard",    \* test_cache_poisoning's mode argument
     k |-> 0,                \* index in Catalog of the pair being tried
     baseline |-> NoResp,    \* verify_302_poisoning: the baseline response
     probes |-> <<>>,        \* the probe responses of this attempt, in order
     sent |-> <<>>,          \* the requests of this attempt, in order
     results |-> <<>>,       \* verify_302_poisoning: results
     result |-> <<>>,        \* what verify_302_poisoning returned: <<r>> or <<>>
     reason |-> "",          \* the error string verify_302_poisoning returned
     calls |-> <<>>,         \* the pairs verify_302_poisoning was called for
     verdicts |-> <<>>,      \* how each of those attempts ended and, for
                             \* a finding, the Location of results[0]
     raised |-> FALSE]       \* whether the except branch (line 681) ran

\* Tasks a worker thread is executing.
Running == {t \in Tasks : task[t].pc \in {"baseline", "probe", "returned",
                                          "writing"}}

\* Line 658: test_cache_poisoning calls verify_302_poisoning for pair k; the
\* attempt starts with fresh results and the baseline not yet fetched.
CallVerify(tk, k) ==
    [tk EXCEPT !.pc = "baseline", !.k = k, !.baseline = NoResp,
               !.probes = <<>>, !.sent = <<>>, !.results = <<>>,
               !.result = <<>>,
               !.reason = "", !.calls = Append(@, k)]

\* verify_302_poisoning returns (result, error) to line 658.
Return(tk, result, reason) ==
    [tk EXCEPT !.pc = "returned", !.result = result, !.reason = reason,
               !.verdicts = Append(@,
                   [v |-> IF result # <<>> THEN "VERIFIED" ELSE "REJECTED",
                    first |-> IF result # <<>>
                              THEN tk.results[1].location ELSE <<>>])]

\* NextPair walking the catalog from its last pair to its first.
NextPair_Reversed(tk) ==
    IF tk.k = 0 THEN CallVerify(tk, Len(Catalog))
    ELSE IF tk.k > 1 THEN CallVerify(tk, tk.k - 1)
    ELSE [tk EXCEPT !.pc = "done"]

\* NextPair that stops after the first pair when the mode is stealth.
NextPair_StealthOnePair(tk) ==
    IF tk.k < (IF tk.mode = "stealth" THEN 1 ELSE Len(Catalog))
    THEN CallVerify(tk, tk.k + 1)
    ELSE [tk EXCEPT !.pc = "done"]

\* NextPair leaving the loops one pair early.
NextPair_SkipsLast(tk) ==
    IF tk.k < Len(Catalog) - 1
    THEN CallVerify(tk, tk.k + 1)
    ELSE [tk EXCEPT !.pc = "done"]

\* Lines 631-632 after line 679: the next pair of the catalog, or the end of
\* the loops and of test_cache_poisoning.
NextPair(tk) ==
    IF tk.k < Len(Catalog)
    THEN CallVerify(tk, tk.k + 1)
    ELSE [tk EXCEPT !.pc = "done"]

\* Except that logs the error and goes on with the next pair.
Except_Continues(tk) == [NextPair(tk) EXCEPT !.raised = TRUE]

\* Lines 681-684: except Exception ends the loops; the function returns
\* normally.
Except(tk) == [tk EXCEPT !.pc = "done", !.raised = TRUE]

\* LogError that swallows the error without a log line.
LogError_Dropped(errs, url) == errs

\* Line 682: log("ERROR", f"Error testing {url}: ...").
LogError(errs, url) == errs \cup {url}

\* Lines 750-773: scan_target submits the next URL to the executor.
Submit ==
    /\ opc = "submit"
    /\ submitted < Len(urls)
    /\ submitted' = submitted + 1
    /\ task' = [task EXCEPT ![submitted + 1].pc = "queued"]
    /\ opc' = IF submitted + 1 = Len(urls) THEN "collect" ELSE "submit"
    /\ UNCHANGED <<threads, urls, net, faults, log, errlog>>
    /\ UNCHANGED crawlVars
    /\ UNCHANGED callVars
    /\ UNCHANGED mainVars

\* max_workers set to one worker per URL.
max_workers_PerUrl == Len(urls)

\* Line 746: ThreadPoolExecutor(max_workers=threads).
max_workers == threads

\* A worker of the pool takes the oldest queued work item (at most
\* max_workers workers exist) and runs test_cache_poisoning: lines 624-632,
\* then the first call of verify_302_poisoning.
Start(t) ==
    /\ task[t].pc = "queued"
    /\ \A u \in Tasks : task[u].pc = "queued" => t <= u
    /\ Cardinality(Running) < max_workers
    /\ task' = [task EXCEPT ![t] = NextPair(@)]
    /\ UNCHANGED <<threads, urls, net, faults, opc, submitted, log, errlog>>
    /\ UNCHANGED crawlVars
    /\ UNCHANGED callVars
    /\ UNCHANGED mainVars

\* Baseline in which a transport error is swallowed and the probes follow.
Baseline_ErrorIgnored(t) ==
    /\ task[t].pc = "baseline"
    /\ \E r \in net.base :
         LET tk == [task[t] EXCEPT
                       !.baseline = r,
                       !.sent = Append(@, BaselineRequest(
                                              urls[t],
                                              Catalog[task[t].k].name,
                                              Catalog[task[t].k].value))] IN
         task' = [task EXCEPT ![t] =
            IF r.kind = "resp" /\ BaselineReflects(r, Catalog[tk.k].value)
            THEN Return(tk, <<>>, "Baseline already contains payload in redirect")
            ELSE [tk EXCEPT !.pc = "probe"]]
    /\ UNCHANGED <<threads, urls, net, faults, opc, submitted, log, errlog>>
    /\ UNCHANGED crawlVars
    /\ UNCHANGED callVars
    /\ UNCHANGED mainVars

\* Lines 557-573: the baseline GET (no injected header) and what follows it
\* without another request.
Baseline(t) ==
    /\ task[t].pc = "baseline"
    /\ \E r \in net.base :
         LET tk == [task[t] EXCEPT
                       !.baseline = r,
                       !.sent = Append(@, BaselineRequest(
                                              urls[t],
                                              Catalog[task[t].k].name,
                                              Catalog[task[t].k].value))] IN
         task' = [task EXCEPT ![t] =
            IF r.kind = "error"
            THEN Return(tk, <<>>, "Error during verification")
            ELSE IF BaselineReflects(r, Catalog[tk.k].value)
            THEN Return(tk, <<>>, "Baseline already contains payload in redirect")
            ELSE [tk EXCEPT !.pc = "probe"]]
    /\ UNCHANGED <<threads, urls, net, faults, opc, submitted, log, errlog>>
    /\ UNCHANGED crawlVars
    /\ UNCHANGED callVars
    /\ UNCHANGED mainVars

\* Probe in which a transport error reaches the outer except of line 619 and
\* ends the attempt.
Probe_AbortsOnError(t) ==
    /\ task[t].pc = "probe"
    /\ \E r \in net.probe :
         LET tk == task[t]
             i == Len(tk.probes) + 1
             value == Catalog[tk.k].value
             res == IF r.kind = "error" THEN tk.results
                    ELSE ProbeResults(tk.results, urls[t], i, r, value)
             tk2 == [tk EXCEPT
                        !.probes = Append(@, r),
                        !.sent = Append(@, ProbeRequest(
                                               urls[t], cache_busters[i + 1],
                                               Catalog[tk.k].name, value)),
                        !.results = res]
         IN task' = [task EXCEPT ![t] =
            IF r.kind = "error"
            THEN Return(tk2, <<>>, "Error during verification")
            ELSE IF i < NumCacheBusters - 1
            THEN tk2
            ELSE Return(tk2, Validate(res),
                        IF Validate(res) = <<>>
                        THEN "Inconsistent or insufficient 302 responses"
                        ELSE "")]
    /\ UNCHANGED <<threads, urls, net, faults, opc, submitted, log, errlog>>
    /\ UNCHANGED crawlVars
    /\ UNCHANGED callVars
    /\ UNCHANGED mainVars

\* Lines 573-617: one probe GET with the header injected; after the last
\* cache buster, the decision rule.
Probe(t) ==
    /\ task[t].pc = "probe"
    /\ \E r \in net.probe :
         LET tk == task[t]
             i == Len(tk.probes) + 1
             value == Catalog[tk.k].value
             res == IF r.kind = "error" THEN tk.results
                    ELSE ProbeResults(tk.results, urls[t], i, r, value)
             tk2 == [tk EXCEPT
                        !.probes = Append(@, r),
                        !.sent = Append(@, ProbeRequest(
                                               urls[t], cache_busters[i + 1],
                                               Catalog[tk.k].name, value)),
                        !.results = res]
         IN task' = [task EXCEPT ![t] =
            IF r.kind = "resp" /\ r.status = 302 /\ value = <<>>
            THEN Except(tk2)      \* TypeError: the tuple has no such key
            ELSE IF i < NumCacheBusters - 1
            THEN tk2
            ELSE Return(tk2, Validate(res),
                        IF Validate(res) = <<>>
                        THEN "Inconsistent or insufficient 302 responses"
                        ELSE "")]
    /\ errlog' = IF task'[t].raised THEN LogError(errlog, urls[t]) ELSE errlog
    /\ UNCHANGED <<threads, urls, net, faults, opc, submitted, log>>
    /\ UNCHANGED crawlVars
    /\ UNCHANGED callVars
    /\ UNCHANGED mainVars

\* vulnerability_data with the header field holding the name alone.
vulnerability_data_NameOnly(url, pair, result) ==
    [url |-> url,
     header |-> pair.name,
     status_code |-> result.status_code,
     location |-> result.location,
     reflection_details |-> result.reflection,
     verification |-> <<"verified", "302_redirect">>]

\* Lines 660-671: the record test_cache_poisoning writes for a finding.
vulnerability_data(url, pair, result) ==
    [url |-> url,
     header |-> pair.name \o <<":", " ">> \o pair.value,
     status_code |-> result.status_code,
     location |-> result.location,
     reflection_details |-> result.reflection,
     verification |-> <<"verified", "302_redirect">>]

\* Lines 660, 673, 679: a finding opens the log for appending; no finding
\* goes through the rate-limiting sleep to the next pair.
HandleResult(t) ==
    /\ task[t].pc = "returned"
    /\ task' = [task EXCEPT ![t] =
                   IF task[t].result # <<>>
                   THEN [@ EXCEPT !.pc = "writing"]
                   ELSE NextPair(@)]
    /\ UNCHANGED <<threads, urls, net, faults, opc, submitted, log, errlog>>
    /\ UNCHANGED crawlVars
    /\ UNCHANGED callVars
    /\ UNCHANGED mainVars

\* Line 673: open(output_file, 'a') raises (OSError); lines 681-684 log it
\* and end the task.
OpenFails(t) ==
    /\ faults
    /\ task[t].pc = "returned"
    /\ task[t].result # <<>>
    /\ task' = [task EXCEPT ![t] = Except(@)]
    /\ errlog' = LogError(errlog, urls[t])
    /\ UNCHANGED <<threads, urls, net, faults, opc, submitted, log>>
    /\ UNCHANGED crawlVars
    /\ UNCHANGED callVars
    /\ UNCHANGED mainVars

\* Lines 674-679: the line is written and, at the end of the with block,
\* flushed to the file opened in append mode; the success is logged and the
\* task sleeps, then goes to the next pair.
WriteClose(t) ==
    /\ task[t].pc = "writing"
    /\ log' = Append(log, vulnerability_data(urls[t], Catalog[task[t].k],
                                              task[t].result[1]))
    /\ task' = [task EXCEPT ![t] = NextPair(@)]
    /\ UNCHANGED <<threads, urls, net, faults, opc, submitted, errlog>>
    /\ UNCHANGED crawlVars
    /\ UNCHANGED callVars
    /\ UNCHANGED mainVars

\* Lines 779-792: the as_completed loop, which ends when every future has
\* finished; future.result() re-raises nothing because test_cache_poisoning
\* caught its exceptions. Then the executor and the progress bar close.
Collect ==
    /\ opc = "collect"
    /\ \A t \in Tasks : task[t].pc = "done"
    /\ opc' = "done"
    /\ UNCHANGED <<threads, urls, net, faults, submitted, task, log, errlog>>
    /\ UNCHANGED crawlVars
    /\ UNCHANGED callVars
    /\ UNCHANGED mainVars

\* No function is being called on its own.
CallIdle ==
    /\ fn = "none"
    /\ args = <<>>
    /\ ret = <<>>

\* A file that does not exist, and the file holding the lines given.
NoFile == [exists |-> FALSE, lines |-> <<>>]
File(lines) == [exists |-> TRUE, lines |-> lines]

\* main is not running.
MainIdle ==
    /\ mpc = "idle"
    /\ domains = <<>>
    /\ ti = 0
    /\ files = <<>>
    /\ all_results = NoFile
    /\ trace = <<>>

CrawlIdle ==
    /\ cpc = "idle"
    /\ discovered = {}
    /\ stack = <<>>
    /\ fetched = <<>>
    /\ filtered = {}

\* scan_target at line 746, for the URL list and the thread count given.
InitScan(n, maxThreads, responses, mayFail) ==
    /\ threads \in 1..maxThreads
    /\ urls = [i \in 1..n |-> UrlAt(i)]
    /\ net = responses
    /\ faults = mayFail
    /\ opc = "submit"
    /\ submitted = 0
    /\ task = [i \in 1..n |-> NewTask]
    /\ log = <<>>
    /\ errlog = {}
    /\ CrawlIdle
    /\ CallIdle
    /\ MainIdle

Init == InitScan(NumUrls, MaxThreads, NetScan, FALSE)

Next ==
    \/ Submit
    \/ \E t \in Tasks : Start(t)
    \/ \E t \in Tasks : Baseline(t)
    \/ \E t \in Tasks : Probe(t)
    \/ \E t \in Tasks : HandleResult(t)
    \/ \E t \in Tasks : WriteClose(t)
    \/ Collect

\* A scan of NumUrls URLs by 1..MaxThreads threads; file I/O does not fail.
Spec == Init /\ [][Next]_vars

\* One URL tested alone by one thread, against every kind of response.
InitVerify == InitScan(1, 1, NetFull, FALSE)
SpecVerify == InitVerify /\ [][Next]_vars

\* The scan of Spec in which opening the finding log may raise.
InitFault == InitScan(NumUrls, MaxThreads, NetScan, TRUE)
NextFault ==
    \/ Next
    \/ \E t \in Tasks : OpenFails(t)
SpecFault == InitFault /\ [][NextFault]_vars

\* One URL tested alone against every kind of response, opening the finding
\* log may raise.
InitVerifyFault == InitScan(1, 1, NetFull, TRUE)
SpecVerifyFault == InitVerifyFault /\ [][NextFault]_vars

\* Line 1033: the choices of --mode.
Modes == {"standard", "aggressive", "stealth"}

\* Two runs of test_cache_poisoning side by side that differ in nothing but
\* the mode scan_target passes at line 764: the same URL, the same catalog,
\* the same transport.
InitModes ==
    /\ threads \in 1..MaxThreads
    /\ urls = <<UrlAt(1), UrlAt(1)>>
    /\ net = NetScan
    /\ faults = FALSE
    /\ opc = "submit"
    /\ submitted = 0
    /\ \E m \in Modes \ {"standard"} :
          task = <<NewTask, [NewTask EXCEPT !.mode = m]>>
    /\ log = <<>>
    /\ errlog = {}
    /\ CrawlIdle
    /\ CallIdle
    /\ MainIdle
SpecModes == InitModes /\ [][Next]_vars

(***************************************************************************)
(* URLs: urllib.parse on sequences of symbols                              *)
(***************************************************************************)

\* The least index >= from at which s has a symbol of cs, or Len(s) + 1.
RECURSIVE Find(_, _, _)
Find(s, cs, from) ==
    IF from > Len(s) THEN Len(s) + 1
    ELSE IF s[from] \in cs THEN from
    ELSE Find(s, cs, from + 1)

\* urlparse(url): scheme, netloc, path and query (the model's alphabet has
\* no ';' and no '#').
urlparse(url) ==
    LET hasScheme == Len(url) >= 1 /\ url[1] \in {"https:", "http:"}
        rest == IF hasScheme THEN Tail(url) ELSE url
        hasNet == Len(rest) >= 2 /\ rest[1] = "/" /\ rest[2] = "/"
        after == IF hasNet THEN SubSeq(rest, 3, Len(rest)) ELSE rest
        netEnd == IF hasNet THEN Find(after, {"/", "?"}, 1) ELSE 1
        tail == SubSeq(after, netEnd, Len(after))
        q == Find(tail, {"?"}, 1)
    IN  [scheme |-> IF hasScheme THEN url[1] ELSE "",
         netloc |-> SubSeq(after, 1, netEnd - 1),
         path |-> SubSeq(tail, 1, q - 1),
         query |-> SubSeq(tail, q + 1, Len(tail))]

\* urlunparse for a URL with a scheme that uses a netloc.
urlunparse(scheme, netloc, path, query) ==
    LET p == IF path # <<>> /\ path[1] # "/" THEN <<"/">> \o path ELSE path
        u == IF netloc # <<>> \/ SubSeq(path, 1, 2) # <<"/", "/">>
             THEN <<"/", "/">> \o netloc \o p
             ELSE path
    IN  <<scheme>> \o u \o (IF query # <<>> THEN <<"?">> \o query ELSE <<>>)

\* s without the "/" symbols that follow another "/": what
\* segments[1:-1] = filter(None, segments[1:-1]) does to the joined path.
RECURSIVE Collapse(_)
Collapse(s) ==
    IF Len(s) <= 1 THEN s
    ELSE IF s[1] = "/" /\ s[2] = "/" THEN Collapse(Tail(s))
    ELSE <<s[1]>> \o Collapse(Tail(s))

\* The index of the last "/" of s, or 0.
RECURSIVE LastSlash(_)
LastSlash(s) ==
    IF s = <<>> THEN 0
    ELSE IF s[Len(s)] = "/" THEN Len(s)
    ELSE LastSlash(SubSeq(s, 1, Len(s) - 1))

\* urljoin(base, url) (no "." or ".." segments in the model's alphabet).
urljoin(base, url) ==
    IF base = <<>> THEN url
    ELSE IF url = <<>> THEN base
    ELSE
    LET b == urlparse(base)
        r == urlparse(url)
        scheme == IF r.scheme = "" THEN b.scheme ELSE r.scheme
    IN  IF scheme # b.scheme THEN url
        ELSE IF r.netloc # <<>>
        THEN urlunparse(scheme, r.netloc, r.path, r.query)
        ELSE IF r.path = <<>>
        THEN urlunparse(scheme, b.netloc, b.path,
                        IF r.query = <<>> THEN b.query ELSE r.query)
        ELSE IF r.path[1] = "/"
        THEN urlunparse(scheme, b.netloc, r.path, r.query)
        ELSE LET dir == IF LastSlash(b.path) = 0 THEN <<"/">>
                        ELSE SubSeq(b.path, 1, LastSlash(b.path))
             IN  urlunparse(scheme, b.netloc, Collapse(dir \o r.path), r.query)

\* str.rstrip('/')
RECURSIVE rstrip(_)
rstrip(s) ==
    IF s # <<>> /\ s[Len(s)] = "/" THEN rstrip(SubSeq(s, 1, Len(s) - 1))
    ELSE s

\* os.path.splitext(path)[1].lower(): the extension of the last name.
Extension(path) ==
    IF path = <<>> THEN ""
    ELSE CASE path[Len(path)] = "p.png" -> ".png"
           [] path[Len(path)] = "s.JS" -> ".js"
           [] OTHER -> ""

(***************************************************************************)
(* discover_urls                                                           *)
(***************************************************************************)

\* The cap on the URL set (MAX_URLS = 1000 in the source, line 31), scaled
\* so that a crawl of a few pages reaches it; as in the source it is larger
\* than the number of seeded endpoints.
MAX_URLS == 5

\* crawl_url's max_depth.
max_depth == 2

\* urlparse(target).netloc
target_domain == urlparse(Target).netloc

\* Line 344-350.
is_same_domain(url) ==
    LET parsed == urlparse(url)
    IN  \/ parsed.netloc = target_domain
        \/ (parsed.path # <<>> /\ parsed.path[1] = "/")

\* Line 352-359.
normalize_path(url) ==
    LET parsed == urlparse(url)
        path == IF rstrip(parsed.path) = <<>> THEN <<"/">>
                ELSE rstrip(parsed.path)
    IN  urljoin(Target, path)

\* common_endpoints, scaled: the empty endpoint, two names, and the name the
\* source lists twice.
common_endpoints == << <<>>, <<"api">>, <<"admin">>, <<"admin">> >>

\* Lines 409-410.
Seeds ==
    {normalize_path(Target \o <<"/">> \o common_endpoints[i] \o <<"/">>) :
        i \in 1..Len(common_endpoints)}

\* References a crawled page may hold.
RefA == <<"/", "a">>                                   \* /a
RefB == <<"b">>                                        \* b
RefASlash == <<"/", "a", "/">>                         \* /a/
RefAQuery == <<"/", "a", "?", "q">>                    \* /a?q
RefPng == <<"/", "p.png">>                             \* /p.png
RefOther == <<"https:", "/", "/", "x", "/", "c">>      \* https://x/c
RefOtherRoot == <<"https:", "/", "/", "x">>            \* https://x
RefNet == <<"/", "/", "x", "/", "e">>                  \* //x/e
RefSlashes == <<"https:", "/", "/", "t", "/", "/", "x", "/", "d">>
                                                       \* https://t//x/d

\* The pages of the model: for each, the list `urls` that the three
\* re.findall scans of lines 436-444 extract from it.
Pages ==
    { <<>>,
      <<RefA, RefB>>,
      <<RefOther, RefOtherRoot>>,
      <<RefSlashes, RefNet>>,
      <<RefASlash, RefAQuery>>,
      <<RefASlash, RefASlash>>,
      <<RefPng, RefA>> }

\* What requests.get gives crawl_url: a RequestException, a status other
\* than 200, or a page.
CrawlResponses ==
    {[kind |-> "error", urls |-> <<>>], [kind |-> "status", urls |-> <<>>]}
    \cup {[kind |-> "page", urls |-> p] : p \in Pages}

\* Lines 448-453: the reference resolved against the target or the page.
FullUrl(page_url, found_url) ==
    IF found_url # <<>> /\ found_url[1] = "/"
    THEN urljoin(Target, found_url)
    ELSE IF found_url # <<>> /\ found_url[1] \in {"http:", "https:"}
    THEN found_url
    ELSE urljoin(page_url, found_url)

\* Line 415-417: crawl_url(url, depth) entered; it returns at once at
\* max_depth.
CallCrawl(stk, url, depth) ==
    IF depth >= max_depth THEN stk
    ELSE Append(stk, [url |-> url, depth |-> depth, st |-> "get",
                      urls |-> <<>>, i |-> 1])

Top == stack[Len(stack)]
Pop == SubSeq(stack, 1, Len(stack) - 1)

ScanIdle ==
    /\ threads = 1
    /\ urls = <<>>
    /\ net = [base |-> {}, probe |-> {}]
    /\ faults = FALSE
    /\ opc = "idle"
    /\ submitted = 0
    /\ task = <<>>
    /\ log = <<>>
    /\ errlog = {}

\* discover_urls at line 341.
InitCrawl ==
    /\ ScanIdle
    /\ CallIdle
    /\ MainIdle
    /\ cpc = "start"
    /\ discovered = {}
    /\ stack = <<>>
    /\ fetched = <<>>
    /\ filtered = {}

\* Lines 408-410 and 482: the common endpoints are added and crawl_url is
\* called for the target.
Seed ==
    /\ cpc = "start"
    /\ discovered' = Seeds
    /\ stack' = CallCrawl(<<>>, Target, 0)
    /\ cpc' = "crawl"
    /\ UNCHANGED <<fetched, filtered>>
    /\ UNCHANGED scanVars
    /\ UNCHANGED callVars
    /\ UNCHANGED mainVars

\* Get in which a RequestException ends discover_urls with nothing found.
Get_AbortsOnError ==
    /\ cpc = "crawl"
    /\ stack # <<>>
    /\ Top.st = "get"
    /\ \E r \in CrawlResponses :
         /\ fetched' = Append(fetched, <<Top.url, Top.depth, r.kind>>)
         /\ stack' = IF r.kind = "page"
                     THEN [stack EXCEPT ![Len(stack)] =
                              [@ EXCEPT !.st = "links", !.urls = r.urls]]
                     ELSE IF r.kind = "error" THEN <<>>
                     ELSE Pop
         /\ discovered' = IF r.kind = "error" THEN {} ELSE discovered
    /\ UNCHANGED <<cpc, filtered>>
    /\ UNCHANGED scanVars
    /\ UNCHANGED callVars
    /\ UNCHANGED mainVars

\* Lines 427-434 and 467-470: the GET of crawl_url; an error or a status
\* other than 200 ends the call.
Get ==
    /\ cpc = "crawl"
    /\ stack # <<>>
    /\ Top.st = "get"
    /\ \E r \in CrawlResponses :
         /\ fetched' = Append(fetched, <<Top.url, Top.depth, r.kind>>)
         /\ stack' = IF r.kind = "page"
                     THEN [stack EXCEPT ![Len(stack)] =
                              [@ EXCEPT !.st = "links", !.urls = r.urls]]
                     ELSE Pop
    /\ UNCHANGED <<cpc, discovered, filtered>>
    /\ UNCHANGED scanVars
    /\ UNCHANGED callVars
    /\ UNCHANGED mainVars

\* Lines 455-457: whether the reference is kept, and the set with it.
Keeps(full_url, found) == is_same_domain(full_url) /\ full_url \notin found
AddUrl(found, full_url) == found \cup {normalize_path(full_url)}

\* Recurses without the len(discovered_urls) < MAX_URLS test.
Recurses_IgnoresCap(found, depth) == depth < max_depth - 1

\* Lines 458-459: whether crawl_url recurses into a kept reference.
Recurses(found, depth) ==
    /\ Cardinality(found) < MAX_URLS
    /\ depth < max_depth - 1

\* Lines 447-460: one reference of the page.
Link ==
    /\ cpc = "crawl"
    /\ stack # <<>>
    /\ Top.st = "links"
    /\ Top.i <= Len(Top.urls)
    /\ LET full_url == FullUrl(Top.url, Top.urls[Top.i])
           stepped == [stack EXCEPT ![Len(stack)].i = @ + 1]
       IN  IF Keeps(full_url, discovered)
           THEN /\ discovered' = AddUrl(discovered, full_url)
                /\ stack' = IF Recurses(discovered', Top.depth)
                            THEN CallCrawl(stepped, full_url, Top.depth + 1)
                            ELSE stepped
           ELSE /\ discovered' = discovered
                /\ stack' = stepped
    /\ UNCHANGED <<cpc, fetched, filtered>>
    /\ UNCHANGED scanVars
    /\ UNCHANGED callVars
    /\ UNCHANGED mainVars

\* The for loop of line 447 is over: crawl_url returns.
CrawlReturn ==
    /\ cpc = "crawl"
    /\ stack # <<>>
    /\ Top.st = "links"
    /\ Top.i > Len(Top.urls)
    /\ stack' = Pop
    /\ UNCHANGED <<cpc, discovered, fetched, filtered>>
    /\ UNCHANGED scanVars
    /\ UNCHANGED callVars
    /\ UNCHANGED mainVars

\* Lines 492, 504-507: a URL the filter may keep.
excluded_extensions == {".jpg", ".jpeg", ".png", ".gif", ".css", ".js",
                        ".svg", ".ico", ".woff", ".ttf", ".eot"}
Eligible(found) ==
    {u \in found : /\ Extension(urlparse(u).path) \notin excluded_extensions
                   /\ is_same_domain(u)}

\* Truncated without the len(filtered_urls) < MAX_URLS test.
Truncated_NoCap(eligible) == {eligible}

\* Lines 501-509: the sets the filter loop can end with; it walks the set in
\* an order the program does not choose and adds while fewer than MAX_URLS
\* are kept.
Truncated(eligible) ==
    {S \in SUBSET eligible :
        Cardinality(S) = IF Cardinality(eligible) < MAX_URLS
                         THEN Cardinality(eligible) ELSE MAX_URLS}

\* Lines 490-523: the crawl is over; filter and return.
Filter ==
    /\ cpc = "crawl"
    /\ stack = <<>>
    /\ filtered' \in Truncated(Eligible(discovered))
    /\ cpc' = "done"
    /\ UNCHANGED <<discovered, stack, fetched>>
    /\ UNCHANGED scanVars
    /\ UNCHANGED callVars
    /\ UNCHANGED mainVars

NextCrawl ==
    \/ Seed
    \/ Get
    \/ Link
    \/ CrawlReturn
    \/ Filter

\* One run of discover_urls for the target.
SpecCrawl == InitCrawl /\ [][NextCrawl]_vars

(***************************************************************************)
(* normalize_url, validate_response_reflection and compare_responses,      *)
(* each called on its own                                                  *)
(***************************************************************************)

\* str.strip(): leading and trailing whitespace removed.
RECURSIVE strip(_)
strip(s) ==
    IF s # <<>> /\ s[1] = " " THEN strip(Tail(s))
    ELSE IF s # <<>> /\ s[Len(s)] = " " THEN strip(SubSeq(s, 1, Len(s) - 1))
    ELSE s

\* re.sub(r'^https?://', '', url): one scheme prefix removed from the start.
re_sub(url) ==
    IF /\ Len(url) >= 3
       /\ url[1] \in {"http:", "https:"}
       /\ url[2] = "/"
       /\ url[3] = "/"
    THEN SubSeq(url, 4, Len(url))
    ELSE url

\* normalize_url that keeps a scheme the string already has.
normalize_url_NoSub(url) == <<"https:", "/", "/">> \o strip(url)

\* Lines 79-85.
normalize_url(url) == <<"https:", "/", "/">> \o re_sub(strip(url))

\* Longest target string tried.
MaxTargetLen == 6

\* The target strings normalize_url is given: whitespace, schemes, slashes
\* and a host name in any arrangement.
TargetStrings ==
    UNION {[1..n -> {" ", "http:", "https:", "/", "t"}] : n \in 0..MaxTargetLen}

\* difflib: the longest block a[i..i+k-1] = b[j..j+k-1], the earliest in a
\* and then the earliest in b among the longest.
LongestMatch(a, b) ==
    LET Block(i, j, k) == SubSeq(a, i, i + k - 1) = SubSeq(b, j, j + k - 1)
        At(k) == {ij \in (1..(Len(a) - k + 1)) \X (1..(Len(b) - k + 1)) :
                     Block(ij[1], ij[2], k)}
        lens == {k \in 1..Len(a) : k <= Len(b) /\ At(k) # {}}
        k == IF lens = {} THEN 0
             ELSE CHOOSE m \in lens : \A n \in lens : n <= m
        i == IF k = 0 THEN 1
             ELSE CHOOSE x \in {ij[1] : ij \in At(k)} :
                      \A y \in {ij[1] : ij \in At(k)} : x <= y
        j == IF k = 0 THEN 1
             ELSE CHOOSE x \in {ij[2] : ij \in {p \in At(k) : p[1] = i}} :
                      \A y \in {ij[2] : ij \in {p \in At(k) : p[1] = i}} :
                          x <= y
    IN  [i |-> i, j |-> j, k |-> k]

\* difflib: the number of matched elements, the longest block first, then
\* what is left and right of it.
RECURSIVE Matches(_, _)
Matches(a, b) ==
    IF a = <<>> \/ b = <<>> THEN 0
    ELSE LET m == LongestMatch(a, b)
         IN  IF m.k = 0 THEN 0
             ELSE m.k
                  + Matches(SubSeq(a, 1, m.i - 1), SubSeq(b, 1, m.j - 1))
                  + Matches(SubSeq(a, m.i + m.k, Len(a)),
                            SubSeq(b, m.j + m.k, Len(b)))

\* A float as a fraction.
Frac(n, d) == [num |-> n, den |-> d]
Less(x, y) == x.num * y.den < y.num * x.den

\* difflib.SequenceMatcher(None, a, b).ratio(): 2.0 * matches / total length.
ratio(a, b) ==
    IF Len(a) + Len(b) = 0 THEN Frac(1, 1)
    ELSE Frac(2 * Matches(a, b), Len(a) + Len(b))

\* s[:n]
Prefix(s, n) == SubSeq(s, 1, IF Len(s) < n THEN Len(s) ELSE n)

\* Line 156.
important_headers == {"server", "x-powered-by", "x-cache", "cache-control",
                      "location"}

\* Line 132: threshold=0.85.
threshold == Frac(85, 100)

\* compare_responses raised: the unpacking of line 173 got the wrong number
\* of values.
ValueError == [kind |-> "raise", exc |-> "ValueError"]

\* Lines 132-197. The value of validate_response_reflection is unpacked into
\* two names: the tuple (False, None) has two items, the reflection_details
\* dict three keys.
compare_responses(baseline, test_response, payload_value) ==
    LET Abs(x) == IF x < 0 THEN -x ELSE x
        status_changed == Abs(baseline.status - test_response.status) >= 100
        length_changed ==
            /\ baseline.length > 0
            /\ Abs(test_response.length - baseline.length) * 100
                  > 15 * baseline.length
        header_changes ==
            {h \in important_headers :
                baseline.headers[h] # test_response.headers[h]}
        reflection == validate_response_reflection(test_response.content,
                                                   payload_value,
                                                   baseline.content)
        items == IF reflection.kind = "tuple" THEN 2
                 ELSE Cardinality({"is_reflected", "location_reflection",
                                   "context"})
        reflection_found == reflection.is_reflected
        similarity_score ==
            IF Truthy(baseline.content) /\ Truthy(test_response.content)
            THEN ratio(Prefix(baseline.content, 1000),
                       Prefix(test_response.content, 1000))
            ELSE Frac(1, 1)
    IN  IF items # 2 THEN ValueError
        ELSE [kind |-> "return",
              is_different |->
                  \/ status_changed
                  \/ length_changed
                  \/ (reflection_found /\ Less(similarity_score, threshold))
                  \/ (Cardinality(header_changes) >= 2
                      /\ Less(similarity_score, threshold)),
              differences |->
                  [status_changed |-> status_changed,
                   length_changed |-> length_changed,
                   content_changed |-> FALSE,
                   headers_changed |-> header_changes # {},
                   reflection_found |-> reflection_found,
                   similarity_score |-> similarity_score]]

\* The response dicts compare_responses is given.
NoHeaders == [h \in important_headers |-> None]
CmpResponses ==
    [status : {200, 301, 302},
     length : {0, 10, 12},
     headers : {NoHeaders,
                [NoHeaders EXCEPT !["location"] = LocA, !["x-cache"] = <<"h">>]},
     content : {<<>>, <<"e", "v">>, <<"e", "v", "/", "a">>}]

\* The calls made of the three functions.
\* Most verification attempts whose tokens are compared.
MaxAttempts == 2

\* Values int(time.time()) may have when an attempt starts, and values
\* os.urandom(4).hex() may have: two of each, so that equal and different
\* draws both happen.
Clock == {100, 101}
Urandom == {"00000000", "ffffffff"}

\* Mint without the position in the token.
Mint_NoIndex(now, rnd) ==
    [i \in 1..NumCacheBusters |-> <<"verify_", now, "_", rnd[i]>>]

\* Lines 551-554: f"verify_{int(time.time())}_{i}_{os.urandom(4).hex()}"
\* for i in range(3); rnd[i] is the i-th draw of os.urandom.
Mint(now, rnd) ==
    [i \in 1..NumCacheBusters |-> <<"verify_", now, "_", i - 1, "_", rnd[i]>>]

CallArgs ==
    [normalize_url |-> [url : TargetStrings],
     validate_response_reflection |->
         [response_text : {<<>>},
          payload_value : {<<>>, <<"e", "v">>, <<"E", "V">>, <<"/", "a">>},
          location_header : {None, <<>>, LocA, LocB, LocN}],
     compare_responses |->
         [baseline : CmpResponses, test_response : CmpResponses,
          payload_value : {<<>>, <<"e", "v">>}],
     cache_busters |-> [count : {NumCacheBusters}]]

InitCalls ==
    /\ ScanIdle
    /\ CrawlIdle
    /\ MainIdle
    /\ fn \in DOMAIN CallArgs
    /\ args \in CallArgs[fn]
    /\ ret = <<>>

\* normalize_url called on the string, then on its own result.
CallNormalizeUrl ==
    /\ fn = "normalize_url"
    /\ Len(ret) < 2
    /\ ret' = Append(ret, normalize_url(IF ret = <<>> THEN args.url
                                        ELSE ret[Len(ret)]))
    /\ UNCHANGED <<fn, args>>
    /\ UNCHANGED scanVars
    /\ UNCHANGED crawlVars
    /\ UNCHANGED mainVars

CallValidateReflection ==
    /\ fn = "validate_response_reflection"
    /\ ret = <<>>
    /\ ret' = <<validate_response_reflection(args.response_text,
                                             args.payload_value,
                                             args.location_header)>>
    /\ UNCHANGED <<fn, args>>
    /\ UNCHANGED scanVars
    /\ UNCHANGED crawlVars
    /\ UNCHANGED mainVars

CallCompareResponses ==
    /\ fn = "compare_responses"
    /\ ret = <<>>
    /\ ret' = <<compare_responses(args.baseline, args.test_response,
                                  args.payload_value)>>
    /\ UNCHANGED <<fn, args>>
    /\ UNCHANGED scanVars
    /\ UNCHANGED crawlVars
    /\ UNCHANGED mainVars

\* Lines 551-554 run once per verification attempt, by whichever URL task
\* makes the attempt: the clock is read and os.urandom drawn from for each of
\* the 3 tokens.
CallMint ==
    /\ fn = "cache_busters"
    /\ Len(ret) < MaxAttempts
    /\ \E now \in Clock, rnd \in [1..NumCacheBusters -> Urandom] :
         ret' = Append(ret, Mint(now, rnd))
    /\ UNCHANGED <<fn, args>>
    /\ UNCHANGED scanVars
    /\ UNCHANGED crawlVars
    /\ UNCHANGED mainVars

NextCalls ==
    \/ CallNormalizeUrl
    \/ CallValidateReflection
    \/ CallCompareResponses
    \/ CallMint

\* Each function applied to each of its inputs.
SpecCalls == InitCalls /\ [][NextCalls]_vars

(***************************************************************************)
(* main: the targets of a run, scan_target and generate_report             *)
(***************************************************************************)

\* Most targets in the hosts file.
MaxTargets == 2

\* Most findings the URL tasks of one scan_target call write.
MaxFindings == 2

\* The lines a hosts file may hold (stripped, not empty, not a comment;
\* line 1073): two spellings of host t and one of host u.
HostLines == {<<"t">>, <<"https:", "/", "/", "t">>, <<"u">>}

\* The directory names scan_target can derive from them (line 697).
Hosts == {urlparse(normalize_url(l)).netloc : l \in HostLines}

\* What requests.head of line 96 may come back with: an exception, or the
\* status of the last response.
Heads ==
    {TransportError, Resp(200, <<>>), Resp(399, <<>>), Resp(400, <<>>)}

\* Lines 87-111: the normalized URL, or None.
validate_domain(url, r) ==
    IF r.kind = "error" THEN None
    ELSE IF r.status >= 200 /\ r.status < 400 THEN normalize_url(url)
    ELSE None

\* AfterTarget leaving the loop at the first scan_target that returns False.
AfterTarget_StopsOnFailure(i, success) ==
    IF success /\ i < Len(domains) THEN "loop" ELSE "report"

\* Lines 1086-1111: whatever scan_target returned, the for loop goes on to
\* the next target; after the last it ends.
AfterTarget(i, success) ==
    IF i < Len(domains) THEN "loop" ELSE "report"

\* The record of a scan_target call that has just been made.
NewCall(target, r) ==
    [target |-> target, head |-> r, valid |-> FALSE, payloads |-> FALSE,
     discovery |-> FALSE, probing |-> FALSE, returned |-> <<>>]

\* The target scan_target is working on, as validate_domain returned it,
\* and the directory name of line 697.
valid_target == normalize_url(domains[ti])
domain == urlparse(valid_target).netloc

\* main at line 1052, with the output directory just created and the hosts
\* file read (lines 1072-1073).
InitMain ==
    /\ ScanIdle
    /\ CrawlIdle
    /\ CallIdle
    /\ domains \in UNION {[1..n -> HostLines] : n \in 0..MaxTargets}
    /\ mpc = IF domains = <<>> THEN "report" ELSE "loop"
    /\ ti = 0
    /\ files = [h \in Hosts |-> NoFile]
    /\ all_results = NoFile
    /\ trace = <<>>

\* Lines 1086-1100 and 688-692: the next target is taken and scan_target
\* validates it; with no valid target it returns False at once.
ScanTarget ==
    /\ mpc = "loop"
    /\ ti < Len(domains)
    /\ ti' = ti + 1
    /\ \E r \in Heads :
         LET ok == Truthy(validate_domain(domains[ti + 1], r))
             c == NewCall(domains[ti + 1], r)
         IN  /\ trace' = Append(trace,
                    IF ok THEN [c EXCEPT !.valid = TRUE]
                    ELSE [c EXCEPT !.returned = <<FALSE>>])
             /\ mpc' = IF ok THEN "valid" ELSE AfterTarget(ti + 1, FALSE)
    /\ UNCHANGED <<domains, files, all_results>>
    /\ UNCHANGED scanVars
    /\ UNCHANGED crawlVars
    /\ UNCHANGED callVars

\* Lines 694-773: the target directory, payloads.json, discover_urls (which
\* returns at least the seeds), results.txt opened with mode 'w' and closed,
\* and one test_cache_poisoning submitted per URL.
Prepare ==
    /\ mpc = "valid"
    /\ trace' = [trace EXCEPT ![ti].payloads = TRUE, ![ti].discovery = TRUE,
                              ![ti].probing = TRUE]
    /\ files' = [files EXCEPT ![domain] = File(<<>>)]
    /\ mpc' = "testing"
    /\ UNCHANGED <<domains, ti, all_results>>
    /\ UNCHANGED scanVars
    /\ UNCHANGED crawlVars
    /\ UNCHANGED callVars

\* The result verify_302_poisoning returns for a pair both of whose probes
\* answered 302 with Location LocA.
FoundResult(url, k) ==
    Validate(ProbeResults(ProbeResults(<<>>, url, 1, Resp(302, LocA),
                                       Catalog[k].value),
                          url, 2, Resp(302, LocA), Catalog[k].value))[1]

\* Lines 660-675: a URL task of the running scan appends a finding to the
\* results.txt of the target directory.
Finding ==
    /\ mpc = "testing"
    /\ Len(files[domain].lines) < MaxFindings
    /\ \E k \in Pairs :
         files' = [files EXCEPT ![domain].lines =
                      Append(@, vulnerability_data(valid_target, Catalog[k],
                                    FoundResult(valid_target, k)))]
    /\ UNCHANGED <<mpc, domains, ti, all_results, trace>>
    /\ UNCHANGED scanVars
    /\ UNCHANGED crawlVars
    /\ UNCHANGED callVars

\* Lines 779-804 and 1101-1111: every future has completed, scan_target
\* returns True and main goes on.
EndScan ==
    /\ mpc = "testing"
    /\ trace' = [trace EXCEPT ![ti].returned = <<TRUE>>]
    /\ mpc' = AfterTarget(ti, TRUE)
    /\ UNCHANGED <<domains, ti, files, all_results>>
    /\ UNCHANGED scanVars
    /\ UNCHANGED crawlVars
    /\ UNCHANGED callVars

\* The contents of the results.txt files of the directories in `order`, one
\* after the other.
RECURSIVE Combined(_)
Combined(order) ==
    IF order = <<>> THEN <<>>
    ELSE files[Head(order)].lines \o Combined(Tail(order))

\* The orders os.walk may list the existing results.txt files in.
WalkOrders ==
    LET have == {h \in Hosts : files[h].exists}
    IN  {o \in [1..Cardinality(have) -> have] :
            \A i, j \in DOMAIN o : i # j => o[i] # o[j]}

\* Lines 1113-1130: generate_report writes all_results.txt from every
\* results.txt under the output directory, then report.html; main returns 0.
Report ==
    /\ mpc = "report"
    /\ \E order \in WalkOrders : all_results' = File(Combined(order))
    /\ mpc' = "done"
    /\ UNCHANGED <<domains, ti, files, trace>>
    /\ UNCHANGED scanVars
    /\ UNCHANGED crawlVars
    /\ UNCHANGED callVars

\* Lines 1132-1135: KeyboardInterrupt raised anywhere in the try block is
\* caught, logged, and main returns 1.
Interrupt ==
    /\ mpc \in {"loop", "valid", "testing", "report"}
    /\ mpc' = "interrupted"
    /\ UNCHANGED <<domains, ti, files, all_results, trace>>
    /\ UNCHANGED scanVars
    /\ UNCHANGED crawlVars
    /\ UNCHANGED callVars

NextMain ==
    \/ ScanTarget
    \/ Prepare
    \/ Finding
    \/ EndScan
    \/ Report
    \/ Interrupt

\* A run of main over a hosts file of at most MaxTargets lines.
SpecMain == InitMain /\ [][NextMain]_vars

(***************************************************************************)
(* Claims about the verifier and the orchestrator                          *)
(***************************************************************************)

\* The attempt task t is in, or has just finished.
LastVerdict(t) == task[t].verdicts[Len(task[t].verdicts)]
HeaderValue(t) == Catalog[task[t].k].value

\* The injected value is in the Location, ignoring case.
Reflected(loc, value) == Contains(Lower(loc), Lower(value))

\* C1: when verify_302_poisoning has returned, the attempt is VERIFIED if and
\* only if at least 2 probe successes were recorded and all their Locations
\* are identical, and then the finding is the first recorded probe; in every
\* other case it is REJECTED and no finding is returned.
C1_DecisionRule ==
    \A t \in Tasks :
        task[t].pc = "returned" =>
            LET rs == task[t].results
                ok == /\ Len(rs) >= 2
                      /\ \A i, j \in 1..Len(rs) : rs[i].location = rs[j].location
            IN  /\ ok => /\ LastVerdict(t).v = "VERIFIED"
                         /\ task[t].result = <<rs[1]>>
                /\ ~ok => /\ LastVerdict(t).v = "REJECTED"
                          /\ task[t].result = <<>>

\* C1 witness: an attempt that returned VERIFIED on two recorded probes.
C1_Witness ==
    \E t \in Tasks :
        /\ task[t].pc = "returned"
        /\ Len(task[t].results) = 2
        /\ LastVerdict(t).v = "VERIFIED"
        /\ task[t].result = <<task[t].results[1]>>

\* C2: an attempt whose baseline is a 302 with the payload value in its
\* Location (ignoring case) is REJECTED with no probe request issued.
C2_AmbientRejected ==
    \A t \in Tasks :
        (/\ task[t].baseline.kind = "resp"
         /\ task[t].baseline.status = 302
         /\ Reflected(task[t].baseline.location, HeaderValue(t)))
        => /\ task[t].probes = <<>>
           /\ task[t].pc # "probe"
           /\ LastVerdict(t).v = "REJECTED"
           /\ task[t].result = <<>>

\* C2 witness: a returned attempt whose baseline reflects the value only when
\* case is ignored ("ev" in "//Ev/a").
C2_Witness ==
    \E t \in Tasks :
        /\ task[t].pc = "returned"
        /\ task[t].baseline = Resp(302, LocA)
        /\ HeaderValue(t) = <<"e", "v">>
        /\ task[t].probes = <<>>
        /\ LastVerdict(t).v = "REJECTED"

\* Both probes answered 302 with one and the same Location, after a baseline
\* that was not a 302.
TwoSame302(t) ==
    /\ task[t].pc = "returned"
    /\ task[t].baseline.kind = "resp"
    /\ task[t].baseline.status # 302
    /\ Len(task[t].probes) = 2
    /\ \A i \in 1..2 : /\ task[t].probes[i].kind = "resp"
                       /\ task[t].probes[i].status = 302
    /\ task[t].probes[1].location = task[t].probes[2].location

\* C3 as stated: after a non-302 baseline, two probes that return 302 with an
\* identical Location end the attempt VERIFIED with that Location.
C3_Original ==
    \A t \in Tasks :
        TwoSame302(t) =>
            /\ LastVerdict(t).v = "VERIFIED"
            /\ task[t].result[1].location = task[t].probes[1].location

\* C3 amended: after a non-302 baseline, two probes that return 302 with an
\* identical Location that contains the injected value (ignoring case) end the
\* attempt VERIFIED with that Location; when the Location does not contain
\* the value the attempt is REJECTED.
C3_Amended ==
    \A t \in Tasks :
        TwoSame302(t) =>
            IF Reflected(task[t].probes[1].location, HeaderValue(t))
            THEN /\ LastVerdict(t).v = "VERIFIED"
                 /\ task[t].result # <<>>
                 /\ task[t].result[1].location = task[t].probes[1].location
            ELSE /\ LastVerdict(t).v = "REJECTED"
                 /\ task[t].result = <<>>

\* C3 witness: baseline 200, both probes 302 with "//Ev/a", VERIFIED.
C3_Witness ==
    \E t \in Tasks :
        /\ TwoSame302(t)
        /\ task[t].probes[1].location = LocA
        /\ LastVerdict(t).v = "VERIFIED"
        /\ task[t].result[1].location = LocA

\* The attempts of task t whose handling by test_cache_poisoning is over.
Handled(t, k) ==
    /\ k <= Len(task[t].verdicts)
    /\ \/ k < task[t].k
       \/ task[t].pc = "done"

\* Log record n is a record of (URL t, pair k).
IsRecordOf(n, t, k) ==
    /\ log[n].url = urls[t]
    /\ log[n].header = Catalog[k].name \o <<":", " ">> \o Catalog[k].value

\* The log records of (URL t, pair k).
RecordsOf(t, k) == {n \in 1..Len(log) : IsRecordOf(n, t, k)}

\* C4: the finding log holds exactly one record for every attempt that ended
\* VERIFIED and was handled, and none for an attempt that ended REJECTED;
\* every record carries "<header name>: <header value>" of its attempt and
\* the Location of the attempt's first recorded probe.
C4_OneRecordPerVerified ==
    /\ \A t \in Tasks : \A k \in Pairs :
          Cardinality(RecordsOf(t, k)) =
              IF Handled(t, k) /\ task[t].verdicts[k].v = "VERIFIED"
              THEN 1 ELSE 0
    /\ \A n \in 1..Len(log) :
          \E t \in Tasks : \E k \in 1..Len(task[t].verdicts) :
              /\ IsRecordOf(n, t, k)
              /\ task[t].verdicts[k].v = "VERIFIED"
              /\ log[n].location = task[t].verdicts[k].first
              /\ Reflected(log[n].location, Catalog[k].value)

\* C4 witness: the scan is over; URL 1 was VERIFIED for the first pair with
\* Location "//Ev/a" and has that one record; URL 2 was REJECTED for it and
\* has none.
C4_Witness ==
    /\ opc = "done"
    /\ Len(urls) >= 2
    /\ task[1].verdicts[1] = [v |-> "VERIFIED", first |-> LocA]
    /\ \E n \in 1..Len(log) :
          /\ log[n].url = urls[1]
          /\ log[n].header = <<"X", "H", ":", " ", "e", "v">>
          /\ log[n].location = LocA
    /\ task[2].verdicts[1].v = "REJECTED"
    /\ RecordsOf(2, 1) = {}

\* C5: every (URL, pair) is attempted at most once and in catalog order, and
\* when the orchestrator is done every URL has had every pair attempted
\* exactly once, whatever the thread count.
C5_SameAttempts ==
    /\ \A t \in Tasks :
          /\ Len(task[t].calls) <= Len(Catalog)
          /\ \A i \in 1..Len(task[t].calls) : task[t].calls[i] = i
    /\ opc = "done" =>
          \A t \in Tasks : Len(task[t].calls) = Len(Catalog)

\* C5 witness: a finished scan by 2 threads in which every URL made all its
\* attempts.
C5_Witness ==
    /\ opc = "done"
    /\ threads = 2
    /\ \A t \in Tasks : task[t].calls = [k \in Pairs |-> k]

\* C6 as stated: at most one URL task is inside the open-append-write of the
\* finding log.
C6_SingleWriter ==
    Cardinality({t \in Tasks : task[t].pc = "writing"}) <= 1

\* C7: a task that raised has returned normally with its error logged; when
\* the orchestrator is done every other task has made all its attempts; and
\* once every task has ended, raised or not, the orchestrator can finish.
C7_FailureIsolated ==
    /\ \A t \in Tasks :
          task[t].raised => /\ task[t].pc = "done"
                            /\ urls[t] \in errlog
    /\ opc = "done" =>
          \A t \in Tasks :
              ~task[t].raised => task[t].calls = [k \in Pairs |-> k]
    /\ (opc = "collect" /\ \A t \in Tasks : task[t].pc = "done")
          => ENABLED Collect

\* C7 witness: the scan is done, one task raised before its last pair and a
\* sibling made every attempt.
C7_Witness ==
    /\ opc = "done"
    /\ \E t, u \in Tasks :
          /\ task[t].raised
          /\ Len(task[t].calls) < Len(Catalog)
          /\ urls[t] \in errlog
          /\ ~task[u].raised
          /\ task[u].calls = [k \in Pairs |-> k]

\* C33: the step in which a URL task raises while handling a pair ends the
\* task with the error logged and without another verification attempt, and
\* a task that has raised never moves again: no later pair of that URL is
\* attempted and nothing more is requested or written for it.
C33_ExceptionStopsLoop ==
    [][\A t \in Tasks :
          task'[t].raised
             => /\ task'[t].pc = "done"
                /\ task'[t].calls = task[t].calls
                /\ task'[t].k = task[t].k
                /\ urls[t] \in errlog'
                /\ task[t].raised => task'[t] = task[t]]_vars

\* C33 witness: the scan is done; the task raised while appending the finding
\* of its first pair, made no attempt for the second, and its error is
\* logged.
C33_Witness ==
    /\ opc = "done"
    /\ \E t \in Tasks :
          /\ task[t].raised
          /\ task[t].calls = <<1>>
          /\ LastVerdict(t).v = "VERIFIED"
          /\ Len(Catalog) > 1
          /\ urls[t] \in errlog
          /\ \A n \in 1..Len(log) : log[n].url # urls[t]

\* C15 as stated: a baseline request that fails in the transport ends the
\* attempt REJECTED with the reason "baseline error", no probe being issued.
C15_Original ==
    \A t \in Tasks :
        task[t].baseline.kind = "error"
        => /\ task[t].probes = <<>>
           /\ task[t].pc # "probe"
           /\ LastVerdict(t).v = "REJECTED"
           /\ task[t].reason = "baseline error"

\* C15 amended: a baseline request that fails in the transport ends the
\* attempt REJECTED with the reason "Error during verification: ..." and no
\* finding, no probe being issued; no other outcome carries that reason.
C15_Amended ==
    \A t \in Tasks :
        /\ task[t].baseline.kind = "error"
           => /\ task[t].probes = <<>>
              /\ task[t].pc # "probe"
              /\ LastVerdict(t).v = "REJECTED"
              /\ task[t].result = <<>>
              /\ task[t].reason = "Error during verification"
        /\ task[t].reason = "Error during verification"
           => task[t].baseline.kind = "error"

\* C15 witness: an attempt that returned on a failed baseline GET.
C15_Witness ==
    \E t \in Tasks :
        /\ task[t].pc = "returned"
        /\ task[t].baseline = TransportError
        /\ task[t].probes = <<>>
        /\ LastVerdict(t).v = "REJECTED"
        /\ task[t].reason = "Error during verification"

\* The probes of task t's attempt that answered 302 with the injected value
\* in a Location, and those that failed in the transport.
GoodProbes(t) ==
    {i \in 1..Len(task[t].probes) :
        /\ task[t].probes[i].kind = "resp"
        /\ task[t].probes[i].status = 302
        /\ task[t].probes[i].location # <<>>
        /\ Reflected(task[t].probes[i].location, HeaderValue(t))}
FailedProbes(t) ==
    {i \in 1..Len(task[t].probes) : task[t].probes[i].kind = "error"}

\* C16: a probe request that fails in the transport is skipped and nothing
\* else: the task does not raise, the attempt returns only after every probe
\* was issued, the recorded probes are exactly the ones that answered 302
\* with the value in the Location, and the verdict follows the decision rule
\* on them.
C16_ProbeFailureSkipped ==
    \A t \in Tasks :
        /\ ~task[t].raised
        /\ {task[t].results[j].buster : j \in 1..Len(task[t].results)}
              = GoodProbes(t)
        /\ task[t].pc = "probe" => Len(task[t].probes) < NumCacheBusters - 1
        /\ (task[t].pc = "returned" /\ task[t].probes # <<>>)
           => /\ Len(task[t].probes) = NumCacheBusters - 1
              /\ LastVerdict(t).v = "VERIFIED"
                   <=> /\ Cardinality(GoodProbes(t)) >= 2
                       /\ \A i, j \in GoodProbes(t) :
                             task[t].probes[i].location
                                = task[t].probes[j].location
              /\ task[t].reason =
                    IF LastVerdict(t).v = "VERIFIED" THEN ""
                    ELSE "Inconsistent or insufficient 302 responses"

\* C16 witness: the first probe failed in the transport, the second was
\* still issued and recorded, and the attempt returned REJECTED.
C16_Witness ==
    \E t \in Tasks :
        /\ task[t].pc = "returned"
        /\ FailedProbes(t) = {1}
        /\ task[t].probes[2] = Resp(302, LocA)
        /\ Len(task[t].results) = 1
        /\ task[t].results[1].buster = 2
        /\ LastVerdict(t).v = "REJECTED"

\* C19: in every state of a scan at most `threads` URL tasks are being
\* executed.
C19_AtMostNRunning ==
    Cardinality(Running) <= threads

\* C19 witness: with one thread, a task is being executed while another one
\* waits in the queue of the pool.
C19_Witness ==
    /\ threads = 1
    /\ Cardinality(Running) = 1
    /\ \E t \in Tasks : task[t].pc = "queued"

\* C20: within a URL the pairs are tried in catalog order and one at a time:
\* while the attempt for pair k is making its requests, the attempts for the
\* pairs 1..k-1, and no others, have returned; the baseline of an attempt is
\* requested before any of its probes.
C20_PairsInOrder ==
    \A t \in Tasks :
        /\ task[t].calls = [i \in 1..task[t].k |-> i]
        /\ task[t].pc \in {"baseline", "probe"}
           => Len(task[t].verdicts) = task[t].k - 1
        /\ task[t].pc \in {"returned", "writing", "done"}
           => Len(task[t].verdicts) = task[t].k
        /\ task[t].pc = "baseline"
           => task[t].baseline = NoResp /\ task[t].probes = <<>>
        /\ task[t].probes # <<>> => task[t].baseline.kind = "resp"

\* C20 witness: with two threads, one URL is at the baseline of its second
\* pair, its first attempt over, while the other URL is still probing for
\* its first pair.
C20_Witness ==
    /\ threads = 2
    /\ \E t, u \in Tasks :
          /\ task[t].pc = "baseline"
          /\ task[t].k = 2
          /\ Len(task[t].verdicts) = 1
          /\ task[u].pc = "probe"
          /\ task[u].k = 1

\* C24 as stated: every record of the finding log has the URL, the
\* header:value string, the status code, the Location, the reflection
\* evidence and the raw response headers of the representative probe.
C24_RecordFields ==
    \A n \in 1..Len(log) :
        {"url", "header", "status_code", "location", "reflection_details",
         "headers"} \subseteq DOMAIN log[n]

\* C27: every recorded probe success, and so every finding returned, has
\* status code 302 and a Location that contains the injected value (ignoring
\* case), and is the record of a probe response that was just that; a probe
\* response with another status, or a 302 whose Location lacks the value,
\* is in no record.
C27_FindingsReflect ==
    \A t \in Tasks :
        /\ \A j \in 1..Len(task[t].results) :
              LET rec == task[t].results[j] IN
              /\ rec.status_code = 302
              /\ Reflected(rec.location, HeaderValue(t))
              /\ rec.buster \in 1..Len(task[t].probes)
              /\ task[t].probes[rec.buster] = Resp(302, rec.location)
        /\ task[t].result # <<>>
           => /\ task[t].result[1].status_code = 302
              /\ Reflected(task[t].result[1].location, HeaderValue(t))
        /\ \A i \in 1..Len(task[t].probes) :
              LET r == task[t].probes[i] IN
              (r.kind = "resp"
               /\ (r.status # 302 \/ ~Reflected(r.location, HeaderValue(t))))
              => \A j \in 1..Len(task[t].results) :
                     task[t].results[j].buster # i

\* C27 witness: a finding was returned for the value "ev" with status 302
\* and the Location "//ev/b".
C27_Witness ==
    \E t \in Tasks :
        /\ task[t].pc = "returned"
        /\ HeaderValue(t) = <<"e", "v">>
        /\ task[t].result # <<>>
        /\ task[t].result[1].status_code = 302
        /\ task[t].result[1].location = LocB

\* The header injected by the attempt task t is in.
Injected(t) == <<Catalog[task[t].k].name, Catalog[task[t].k].value>>

\* C26: an attempt issues its baseline request first and without the
\* injected header; each probe request is issued after the baseline returned
\* a response, carries the injected header, and there are at most 2 of them
\* (3 requests in all); probing happens only after a baseline that does not
\* already reflect the value; and a returned attempt is exactly one of
\* VERIFIED, with a finding, or REJECTED, with none.
C26_AttemptOrder ==
    \A t \in Tasks :
        /\ ~task[t].raised
        /\ Len(task[t].sent) <= NumCacheBusters
        /\ Len(task[t].sent)
              = (IF task[t].baseline = NoResp THEN 0 ELSE 1)
                + Len(task[t].probes)
        /\ task[t].pc = "baseline"
           => task[t].sent = <<>> /\ task[t].probes = <<>>
        /\ task[t].sent # <<>>
           => /\ task[t].sent[1].headers = {USER_AGENT}
              /\ task[t].sent[1].url
                    = urls[t] \o <<"?", "cb=", cache_busters[1]>>
        /\ \A i \in 2..Len(task[t].sent) :
              /\ Injected(t) \in task[t].sent[i].headers
              /\ task[t].baseline.kind = "resp"
              /\ ~BaselineReflects(task[t].baseline, HeaderValue(t))
        /\ task[t].pc = "probe"
           => /\ task[t].baseline.kind = "resp"
              /\ Len(task[t].probes) < NumCacheBusters - 1
        /\ task[t].pc = "returned"
           => /\ Len(task[t].verdicts) = task[t].k
              /\ LastVerdict(t).v \in {"VERIFIED", "REJECTED"}
              /\ LastVerdict(t).v = "VERIFIED" <=> task[t].result # <<>>
              /\ LastVerdict(t).v = "REJECTED" <=> task[t].reason # ""

\* C26 witness: an attempt returned VERIFIED after three requests, the
\* first without the injected header, the other two with it.
C26_Witness ==
    \E t \in Tasks :
        /\ task[t].pc = "returned"
        /\ LastVerdict(t).v = "VERIFIED"
        /\ Len(task[t].sent) = 3
        /\ Injected(t) \notin task[t].sent[1].headers
        /\ Injected(t) \in task[t].sent[2].headers
        /\ Injected(t) \in task[t].sent[3].headers
        /\ task[t].sent[2].url # task[t].sent[3].url

\* Runs t and u are of the same URL and differ in the mode.
ModePair(t, u) == urls[t] = urls[u] /\ task[t].mode # task[u].mode

\* Runs t and u are in the same attempt and saw the same responses in it.
SameObservation(t, u) ==
    /\ task[t].k = task[u].k
    /\ task[t].baseline = task[u].baseline
    /\ task[t].probes = task[u].probes

\* s is a prefix of r.
IsPrefix(s, r) == Len(s) <= Len(r) /\ s = SubSeq(r, 1, Len(s))

\* The attempt task t is in has returned.
Returned(t) == task[t].k > 0 /\ Len(task[t].verdicts) = task[t].k

\* C25: two runs for the same URL that differ only in the mode attempt the
\* pairs in the same order and, when both end, have attempted the same
\* pairs; in an attempt where they saw the same responses they sent the same
\* requests, kept the same results, reached the same verdict and write the
\* same record; and two returned attempts never differ in the number of
\* probes alone.
C25_ModeInvariant ==
    \A t, u \in Tasks :
        ModePair(t, u) =>
            /\ IsPrefix(task[t].calls, task[u].calls)
                  \/ IsPrefix(task[u].calls, task[t].calls)
            /\ task[t].pc = "done" /\ task[u].pc = "done"
                  /\ ~task[t].raised /\ ~task[u].raised
               => task[t].calls = task[u].calls
            /\ SameObservation(t, u)
               => /\ task[t].sent = task[u].sent
                  /\ task[t].results = task[u].results
                  /\ Returned(t) /\ Returned(u)
                     => /\ LastVerdict(t) = LastVerdict(u)
                        /\ task[t].result = task[u].result
                        /\ task[t].reason = task[u].reason
            /\ /\ Returned(t) /\ Returned(u)
               /\ task[t].k = task[u].k
               /\ task[t].baseline = task[u].baseline
               /\ IsPrefix(task[t].probes, task[u].probes)
               => task[t].probes = task[u].probes

\* C25 witness: a standard run and a stealth run of the same URL both ended,
\* each after every pair, both with a finding for the last pair on the same
\* responses, and both findings are in the log.
C25_Witness ==
    /\ Len(urls) = 2
    /\ ModePair(1, 2)
    /\ task[2].mode = "stealth"
    /\ task[1].pc = "done" /\ task[2].pc = "done"
    /\ task[1].calls = [k \in Pairs |-> k]
    /\ SameObservation(1, 2)
    /\ Len(task[1].sent) = NumCacheBusters
    /\ LastVerdict(1).v = "VERIFIED"
    /\ LastVerdict(2).v = "VERIFIED"
    /\ Cardinality({n \in 1..Len(log) :
                       log[n] = vulnerability_data(urls[1],
                                                   Catalog[Len(Catalog)],
                                                   task[1].result[1])}) = 2

(***************************************************************************)
(* Claims about discover_urls                                              *)
(***************************************************************************)

\* C8: discover_urls never returns more than MAX_URLS entries.
C8_ReturnCapped ==
    cpc = "done" => Cardinality(filtered) <= MAX_URLS

\* C8 witness: a crawl that found more than MAX_URLS URLs the filter may
\* keep, and returned MAX_URLS of them.
C8_Witness ==
    /\ cpc = "done"
    /\ Cardinality(Eligible(discovered)) > MAX_URLS
    /\ Cardinality(filtered) = MAX_URLS

\* C9 as stated: every URL discover_urls returns has the target's host.
C9_ReturnedOnTarget ==
    cpc = "done" =>
        \A u \in filtered : urlparse(u).netloc = target_domain

\* C10 as stated: in every state of the crawl the discovered set holds at
\* most MAX_URLS URLs.
C10_DiscoveredCapped ==
    Cardinality(discovered) <= MAX_URLS

\* The reference crawl_url is about to handle, resolved (lines 448-453).
AtLink ==
    /\ cpc = "crawl"
    /\ stack # <<>>
    /\ Top.st = "links"
    /\ Top.i <= Len(Top.urls)
CurrentFullUrl == FullUrl(Top.url, Top.urls[Top.i])

\* C11 as stated: a reference that resolves to an absolute URL on another host
\* is discarded: handling it adds nothing to the discovered set and starts no
\* crawl of it, and no GET is ever issued to another host.
C11_OffHostDiscarded ==
    /\ [][(AtLink /\ urlparse(CurrentFullUrl).netloc # target_domain)
            => /\ discovered' = discovered
               /\ Len(stack') = Len(stack)]_vars
    /\ [](\A i \in 1..Len(fetched) :
             urlparse(fetched[i][1]).netloc = target_domain)

\* C17 as stated: when every request of the discovery failed, discover_urls
\* returns the empty set.
C17_EmptyOnTotalFailure ==
    (/\ cpc = "done"
     /\ \A i \in 1..Len(fetched) : fetched[i][3] = "error")
    => filtered = {}

\* The GET that the step under consideration issued, if it issued one.
Fetches(kind) ==
    /\ Len(fetched') = Len(fetched) + 1
    /\ fetched'[Len(fetched')][3] = kind

\* C18: a GET of crawl_url that fails with a network error ends that call
\* only: nothing is extracted from the URL, discover_urls is still crawling,
\* and the caller's frame is back on top with its remaining links, or, when
\* the failed call was the outermost one, the crawl is over and the filter
\* is next.
C18_FailureSwallowed ==
    [][Fetches("error")
        => /\ stack' = Pop
           /\ discovered' = discovered
           /\ cpc' = "crawl"
           /\ IF Len(stack) > 1
              THEN /\ stack'[Len(stack')].st = "links"
                   /\ stack'[Len(stack')].urls # <<>>
              ELSE stack' = <<>>]_vars

\* C18 witness: discover_urls has returned; the GET of the first link of the
\* root page failed, the link after it was still handled, and both links are
\* in the result.
C18_Witness ==
    /\ cpc = "done"
    /\ Len(fetched) >= 2
    /\ fetched[1] = <<Target, 0, "page">>
    /\ fetched[2] = <<Target \o RefA, 1, "error">>
    /\ {Target \o RefA, Target \o <<"/">> \o RefB} \subseteq filtered

\* C28: no GET is issued at depth max_depth or deeper, crawl_url calls are
\* nested at most max_depth deep, and a recursive call (depth 1 or more) is
\* about to issue its GET only while the discovered set holds fewer than
\* MAX_URLS URLs and its caller was at a depth less than max_depth - 1.
C28_RecursionBounded ==
    /\ \A i \in 1..Len(fetched) : fetched[i][2] < max_depth
    /\ Len(stack) <= max_depth
    /\ (stack # <<>> /\ Top.st = "get" /\ Top.depth >= 1)
       => /\ Cardinality(discovered) < MAX_URLS
          /\ Top.depth - 1 < max_depth - 1

\* C28 witness: discover_urls has returned; the first link of the root page
\* was crawled at depth 1; the second was kept when the set reached
\* MAX_URLS and was not crawled.
C28_Witness ==
    /\ cpc = "done"
    /\ Len(fetched) = 2
    /\ fetched[1] = <<Target, 0, "page">>
    /\ fetched[2][1] = Target \o RefA
    /\ fetched[2][2] = 1
    /\ Target \o <<"/">> \o RefB \in discovered
    /\ Cardinality(discovered) >= MAX_URLS

\* C29 as stated: when discover_urls returns, a GET was issued for every
\* seeded URL: the target root and each common endpoint.
C29_SeedsFetched ==
    cpc = "done" =>
        \A u \in Seeds :
            \E i \in 1..Len(fetched) : normalize_path(fetched[i][1]) = u

\* C32 as stated: during one discovery run no URL is fetched twice, whatever
\* the pages crawled refer to and however often.
C32_NoRefetch ==
    \A i, j \in 1..Len(fetched) : i # j => fetched[i][1] # fetched[j][1]

(***************************************************************************)
(* Claims about the functions called on their own                          *)
(***************************************************************************)

\* C12 as stated: compare_responses(r, r, v) returns is_different = False
\* and similarity_score = 1.0, for every response r and every value v, the
\* empty one or not.
C12_SelfComparison ==
    (/\ fn = "compare_responses"
     /\ ret # <<>>
     /\ args.baseline = args.test_response)
    => /\ ret[1].kind = "return"
       /\ ~ret[1].is_different
       /\ ret[1].differences.similarity_score.num
             = ret[1].differences.similarity_score.den

\* The injected value is in the Location header, ignoring case; an absent or
\* empty header has nothing in it.
InLocation(value, location_header) ==
    /\ location_header # None
    /\ location_header # <<>>
    /\ Contains(Lower(location_header), Lower(value))

\* C13 as stated: validate_response_reflection reports a Location reflection
\* if and only if the injected value is a substring of the Location header,
\* ignoring case, and none when the header is absent or empty.
C13_Original ==
    (fn = "validate_response_reflection" /\ ret # <<>>)
    => (ret[1].location_reflection
           <=> InLocation(args.payload_value, args.location_header))

\* C13 amended: for a non-empty injected value, validate_response_reflection
\* reports a Location reflection if and only if the value is a substring of
\* the Location header, ignoring case, and none when the header is absent or
\* empty; for an empty injected value it reports no reflection at all.
C13_Amended ==
    (fn = "validate_response_reflection" /\ ret # <<>>)
    => IF args.payload_value # <<>>
       THEN /\ ret[1].kind = "dict"
            /\ ret[1].location_reflection
                  <=> InLocation(args.payload_value, args.location_header)
            /\ args.location_header \in {None, <<>>}
                  => ~ret[1].location_reflection
       ELSE /\ ret[1].kind = "tuple"
            /\ ~ret[1].location_reflection
            /\ ~ret[1].is_reflected

\* C13 witness: "EV" is reported as reflected in the Location "//ev/b".
C13_Witness ==
    /\ fn = "validate_response_reflection"
    /\ args.payload_value = <<"E", "V">>
    /\ args.location_header = LocB
    /\ ret # <<>>
    /\ ret[1].location_reflection

\* C14: normalize_url applied to its own result gives that result again.
C14_NormalizeIdempotent ==
    (fn = "normalize_url" /\ Len(ret) = 2) => ret[2] = ret[1]

\* C14 witness: " http://t " is normalized to "https://t", and "https://t"
\* to itself.
C14_Witness ==
    /\ fn = "normalize_url"
    /\ args.url = <<" ", "http:", "/", "/", "t", " ">>
    /\ ret = <<Target, Target>>

\* C30 as stated: for a non-empty injected value compare_responses returns
\* reflection_found true exactly when the value is in the test response's
\* Location header (ignoring case), whatever the baseline response.
C30_ReflectionFound ==
    (/\ fn = "compare_responses"
     /\ ret # <<>>
     /\ args.payload_value # <<>>)
    => /\ ret[1].kind = "return"
       /\ ret[1].differences.reflection_found
             <=> InLocation(args.payload_value,
                            args.test_response.headers["location"])

(***************************************************************************)
(* Claims about main                                                       *)
(***************************************************************************)

\* The HEAD request of a scan_target call failed to validate the target.
ValidationFailed(c) ==
    c.head.kind = "error" \/ c.head.status < 200 \/ c.head.status >= 400

\* C21 as stated: a finding written to a results.txt stays in it, unchanged
\* and in place, for the rest of the run: every step leaves each existing
\* file with its old lines as a prefix of its new ones.
C21_AppendOnly ==
    [][\A h \in Hosts :
          files[h].exists
             => /\ files'[h].exists
                /\ IsPrefix(files[h].lines, files'[h].lines)]_vars

\* C22: a scan_target call whose validation failed generated no payloads,
\* discovered and probed nothing and returned False; a target that validated
\* is not left unscanned; and when main reaches the report without an
\* interrupt, scan_target has been called for every target of the list, in
\* order, the targets after a failed one included.
C22_FailureFatalToTargetOnly ==
    /\ Len(trace) = ti
    /\ \A i \in 1..Len(trace) :
          /\ trace[i].target = domains[i]
          /\ ValidationFailed(trace[i])
             => /\ ~trace[i].valid
                /\ ~trace[i].payloads
                /\ ~trace[i].discovery
                /\ ~trace[i].probing
                /\ trace[i].returned = <<FALSE>>
          /\ ~ValidationFailed(trace[i]) => trace[i].valid
          /\ trace[i].valid /\ (i < ti \/ mpc \in {"report", "done"})
             => /\ trace[i].payloads
                /\ trace[i].discovery
                /\ trace[i].probing
                /\ trace[i].returned = <<TRUE>>
    /\ mpc \in {"report", "done"} => ti = Len(domains)

\* C22 witness: a finished run over two targets, the first of which failed
\* validation and the second of which was scanned and has a finding.
C22_Witness ==
    /\ mpc = "done"
    /\ Len(domains) = 2
    /\ Len(trace) = 2
    /\ ValidationFailed(trace[1])
    /\ trace[1].returned = <<FALSE>>
    /\ trace[2].probing
    /\ trace[2].returned = <<TRUE>>
    /\ files[urlparse(normalize_url(domains[2])).netloc].lines # <<>>

\* C23 as stated: after an interrupt the run has written all_results.txt
\* (and the report with it) from the findings written before the interrupt.
C23_InterruptStillReports ==
    mpc = "interrupted"
       => /\ all_results.exists
          /\ \E order \in WalkOrders : all_results.lines = Combined(order)

(***************************************************************************)
(* Claims about the cache busters                                          *)
(***************************************************************************)

\* The tokens minted so far: <<attempt, position>> of each.
Minted == {ap \in (1..Len(ret)) \X (1..NumCacheBusters) : TRUE}

====
